---- MODULE Spec2Model ----
(***************************************************************************)
(* Model of yapl/yapl.py: the Lossy Counting bigram counter                *)
(* (BigramCounter), the exact unigram counter and the PMI scoring loop of  *)
(* insert_articles_to_lexicon.                                             *)
(*                                                                         *)
(* Python dicts are functions whose DOMAIN is the dict's key set; a        *)
(* defaultdict(dict) is a function to such functions.  A float delta is    *)
(* the exact rational <<num, den>> with den > 0.  Natural logarithms are   *)
(* kept in millionths (LnMicro).                                           *)
(***************************************************************************)
EXTENDS Integers, Sequences, FiniteSets, TLC

\* ------------------------------------------------------------- bounds
MaxDocLen == 3
MaxTokens == 6
MaxUni == 10
MaxBi == 5

\* ------------------------------------------------------ program inputs
\* The vocabulary of the token stream; "the" is a stopword.
Tokens == {"new", "york", "the"}

\* sw: the stopword list handed to the constructor.
StopWords == {"the"}

\* The deltas a caller may hand to BigramCounter(delta, sw), as <<num, den>>:
\* 1/2, 1/3 and 3/4 lie in (0,1); 0, 1, 2 and -1/2 do not.
ValidDeltas == {<<1, 2>>, <<1, 3>>, <<3, 4>>}
InvalidDeltas == {<<0, 1>>, <<1, 1>>, <<2, 1>>, <<-1, 2>>}
Deltas == ValidDeltas \cup InvalidDeltas

\* The documents: every token sequence of at most MaxDocLen tokens.
Docs == UNION {[1..k -> Tokens] : k \in 0..MaxDocLen}

Pairs == Tokens \X Tokens

\* threshold = 1000, in millionths.
ThresholdCode == 1000000000

\* The thresholds the scoring loop is applied with as a function of its
\* inputs: 0.4, 0.5 and the program's 1000, in millionths.
Thresholds == {400000, 500000, ThresholdCode}

\* delta = 5e-3, the error bound insert_articles_to_lexicon constructs with.
DeltaCode == <<1, 200>>

VARIABLES
    pc,                 \* "new", "counting", "scored" or "crashed"
    delta,              \* self.delta
    n,                  \* self.n
    bigrams,            \* self.bigrams
    bucket_ids,         \* self.bucket_ids
    current_bucket_id,  \* self.current_bucket_id
    unigrams,           \* unigrams (a Counter)
    tokens,             \* tokens of the document being processed
    idx,                \* position of the zip(tokens, tokens[1:]) loop
    threshold,          \* threshold, in millionths
    phrases,            \* phrases, as the set of accepted (y, x)
    f_true,             \* history: add(t1, t2) calls made, per pair
    observed            \* history: occurrences of each token in the stream

vars == <<pc, delta, n, bigrams, bucket_ids, current_bucket_id, unigrams,
          tokens, idx, threshold, phrases, f_true, observed>>

\* ------------------------------------------------------------- dicts
EmptyDict == [k \in {} |-> 0]

DictSet(d, k, v) == [x \in (DOMAIN d) \cup {k} |-> IF x = k THEN v ELSE d[x]]

RECURSIVE SumOver(_, _)
SumOver(d, keys) ==
    IF keys = {} THEN 0
    ELSE LET k == CHOOSE x \in keys : TRUE
         IN d[k] + SumOver(d, keys \ {k})

\* sum(d.values())
SumValues(d) == SumOver(d, DOMAIN d)

\* defaultdict(dict).__getitem__: a missing key is inserted with an empty dict.
Touch(dd, t1) == IF t1 \in DOMAIN dd THEN dd ELSE DictSet(dd, t1, EmptyDict)

\* The (t1, t2) entries of a two-level dict.
Entries(dd) == {p \in Pairs : p[1] \in DOMAIN dd /\ p[2] \in DOMAIN dd[p[1]]}

\* ---------------------------------------------------- BigramCounter
Abs(i) == IF i < 0 THEN -i ELSE i

\* int(1 / self.delta): the quotient truncated toward zero (d[1] # 0).
Width(d) ==
    IF d[1] > 0 THEN d[2] \div d[1] ELSE -(d[2] \div Abs(d[1]))

\* 1 / self.delta or n % int(1 / self.delta) raises ZeroDivisionError.
DivisionFails(d) == d[1] = 0 \/ Width(d) = 0

\* is_boundary_of_bucket: self.n % int(1 / self.delta) == 0.  Python's n % w
\* is 0 exactly when |w| divides n.
IsBoundaryOfBucket(d, n1) == n1 % Abs(Width(d)) = 0

\* The test of add: t1 not in self.stopwords and t2 not in self.stopwords.
CountedStopFirstOnly(t1, t2) == t1 \notin StopWords

CountedStopSecondOnly(t1, t2) == t2 \notin StopWords

Counted(t1, t2) == t1 \notin StopWords /\ t2 \notin StopWords

\* The count add leaves at (t1, t2): += 1 if present, else 1.
AddBigramsTwice(bg, t1, t2) ==
    LET b == Touch(bg, t1)
    IN  DictSet(b, t1, DictSet(b[t1], t2,
            IF t2 \in DOMAIN b[t1] THEN b[t1][t2] + 2 ELSE 1))

AddBigrams(bg, t1, t2) ==
    LET b == Touch(bg, t1)
    IN  DictSet(b, t1, DictSet(b[t1], t2,
            IF t2 \in DOMAIN b[t1] THEN b[t1][t2] + 1 ELSE 1))

AddBucketIdsCurrent(bid, bg, cur, t1, t2) ==
    IF t1 \in DOMAIN bg /\ t2 \in DOMAIN bg[t1] THEN bid
    ELSE LET b == Touch(bid, t1)
         IN  DictSet(b, t1, DictSet(b[t1], t2, cur))

\* The else branch of add: self.bucket_ids[t1][t2] = self.current_bucket_id - 1,
\* only when (t1, t2) was not in self.bigrams.
AddBucketIds(bid, bg, cur, t1, t2) ==
    IF t1 \in DOMAIN bg /\ t2 \in DOMAIN bg[t1] THEN bid
    ELSE LET b == Touch(bid, t1)
         IN  DictSet(b, t1, DictSet(b[t1], t2, cur - 1))

\* deleted_bigram_queue of weed_out_bigrams.
DeletedBigramQueueStrict(bg, bid, cur) ==
    {p \in Entries(bg) : bg[p[1]][p[2]] < cur - bid[p[1]][p[2]]}

DeletedBigramQueueStale(bg, bid, cur) ==
    {p \in Entries(bg) : bg[p[1]][p[2]] <= (cur - 1) - bid[p[1]][p[2]]}

DeletedBigramQueue(bg, bid, cur) ==
    {p \in Entries(bg) : bg[p[1]][p[2]] <= cur - bid[p[1]][p[2]]}

\* del dd[t1][t2] for every queued pair; the first-level keys stay.
DelAllPruneEmpty(dd, queue) ==
    [t1 \in {t \in DOMAIN dd : \E x \in DOMAIN dd[t] : <<t, x>> \notin queue}
        |-> [t2 \in {x \in DOMAIN dd[t1] : <<t1, x>> \notin queue}
                |-> dd[t1][t2]]]

DelAll(dd, queue) ==
    [t1 \in DOMAIN dd |->
        [t2 \in {x \in DOMAIN dd[t1] : <<t1, x>> \notin queue} |-> dd[t1][t2]]]

\* del self.bucket_ids[t1][t2] for every queued pair.
DelBucketIdsForgotten(bid, queue) == bid

DelBucketIds(bid, queue) == DelAll(bid, queue)

\* ------------------------------------------------------ unigram Counter
\* Counter(tokens)
CounterOfButLast(toks) ==
    LET keys == {toks[i] : i \in 1..(Len(toks) - 1)}
    IN  [t \in keys |-> Cardinality({i \in 1..(Len(toks) - 1) : toks[i] = t})]

CounterOf(toks) ==
    LET keys == {toks[i] : i \in DOMAIN toks}
    IN  [t \in keys |-> Cardinality({i \in DOMAIN toks : toks[i] = t})]

\* Counter.__getitem__: a missing key counts 0 and is not inserted.
Count(c, t) == IF t \in DOMAIN c THEN c[t] ELSE 0

\* Counter.__iadd__: add the counts, keep the positive ones.
CounterAssign(c, other) == other

CounterIAdd(c, other) ==
    LET keys == {t \in (DOMAIN c) \cup (DOMAIN other) :
                    Count(c, t) + Count(other, t) > 0}
    IN  [t \in keys |-> Count(c, t) + Count(other, t)]

\* ------------------------------------------------------------- scoring
\* math.log of 1..40, in millionths.
LnMicro ==
    <<0, 693147, 1098612, 1386294, 1609438, 1791759, 1945910, 2079442,
      2197225, 2302585, 2397895, 2484907, 2564949, 2639057, 2708050, 2772589,
      2833213, 2890372, 2944439, 2995732, 3044522, 3091042, 3135494, 3178054,
      3218876, 3258097, 3295837, 3332205, 3367296, 3401197, 3433987, 3465736,
      3496508, 3526361, 3555348, 3583519, 3610918, 3637586, 3663562, 3688879>>

\* math.log(p / q) for the quotient p / q of two positive integers.
Log(q) == LnMicro[q[1]] - LnMicro[q[2]]

\* pmi = math.log(p_x_given_y / p_x), with p_x_given_y = count_x_given_y /
\* count_all_given_y and p_x = unigrams[token_x] / count_all.
PmiInverted(count_x_given_y, count_all_given_y, count_x, count_all) ==
    Log(<<count_x, count_all>>) - Log(<<count_x_given_y, count_all_given_y>>)

Pmi(count_x_given_y, count_all_given_y, count_x, count_all) ==
    Log(<<count_x_given_y, count_all_given_y>>) - Log(<<count_x, count_all>>)

\* The scoring loop divides by zero: p_x is 0, or count_all is 0.
ScoreFails(bg, uni) ==
    \E p \in Entries(bg) : SumValues(uni) = 0 \/ Count(uni, p[2]) = 0

\* The pairs the scoring loop appends to phrases.
Accepted(bg, uni, thr) ==
    {p \in Entries(bg) :
        Pmi(bg[p[1]][p[2]], SumValues(bg[p[1]]), Count(uni, p[2]),
            SumValues(uni)) >= thr}

\* -------------------------------------------------------------- history
RECURSIVE Occurrences(_, _)
Occurrences(toks, t) ==
    IF toks = <<>> THEN 0
    ELSE (IF Head(toks) = t THEN 1 ELSE 0) + Occurrences(Tail(toks), t)

TotalObserved == SumValues(observed)

\* ---------------------------------------------------------------- Init
Init ==
    /\ pc = "new"
    /\ delta = <<1, 2>>
    /\ n = 0
    /\ bigrams = EmptyDict
    /\ bucket_ids = EmptyDict
    /\ current_bucket_id = 1
    /\ unigrams = EmptyDict
    /\ tokens = <<>>
    /\ idx = 1
    /\ threshold = ThresholdCode
    /\ phrases = {}
    /\ f_true = [p \in Pairs |-> 0]
    /\ observed = [t \in Tokens |-> 0]

\* ------------------------------------------------------------- actions
\* unigrams = Counter(); counter = BigramCounter(d, sw)
Construct(d) ==
    /\ pc = "new"
    /\ pc' = "counting"
    /\ delta' = d
    /\ n' = 0
    /\ bigrams' = EmptyDict
    /\ bucket_ids' = EmptyDict
    /\ current_bucket_id' = 1
    /\ unigrams' = EmptyDict
    /\ UNCHANGED <<tokens, idx, threshold, phrases, f_true, observed>>

\* The zip loop over the current document has ended.
DocDone == idx >= Len(tokens)

\* One document: tokens = ...; unigrams += Counter(tokens)
ReadDoc(doc) ==
    /\ pc = "counting"
    /\ DocDone
    /\ TotalObserved + Len(doc) <= MaxTokens
    /\ tokens' = doc
    /\ idx' = 1
    /\ unigrams' = CounterIAdd(unigrams, CounterOf(doc))
    /\ observed' = [t \in Tokens |-> observed[t] + Occurrences(doc, t)]
    /\ UNCHANGED <<pc, delta, n, bigrams, bucket_ids, current_bucket_id,
                   threshold, phrases, f_true>>

\* One iteration of the zip loop: counter.add(tokens[idx], tokens[idx + 1])
AddPair ==
    /\ pc = "counting"
    /\ ~DocDone
    /\ LET t1 == tokens[idx]
           t2 == tokens[idx + 1]
           n1 == n + 1
           bg1 == IF Counted(t1, t2) THEN AddBigrams(bigrams, t1, t2)
                  ELSE bigrams
           bid1 == IF Counted(t1, t2)
                   THEN AddBucketIds(bucket_ids, bigrams, current_bucket_id,
                                     t1, t2)
                   ELSE bucket_ids
       IN  /\ n' = n1
           /\ f_true' = [f_true EXCEPT ![<<t1, t2>>] = @ + 1]
           /\ IF DivisionFails(delta)
              THEN /\ pc' = "crashed"
                   /\ bigrams' = bg1
                   /\ bucket_ids' = bid1
                   /\ UNCHANGED <<current_bucket_id, idx>>
              ELSE /\ pc' = pc
                   /\ idx' = idx + 1
                   /\ IF IsBoundaryOfBucket(delta, n1)
                      THEN LET cur1 == current_bucket_id + 1
                               queue == DeletedBigramQueue(bg1, bid1, cur1)
                           IN  /\ current_bucket_id' = cur1
                               /\ bigrams' = DelAll(bg1, queue)
                               /\ bucket_ids' = DelBucketIds(bid1, queue)
                      ELSE /\ current_bucket_id' = current_bucket_id
                           /\ bigrams' = bg1
                           /\ bucket_ids' = bid1
    /\ UNCHANGED <<delta, unigrams, tokens, threshold, phrases, observed>>

\* The scoring loop over counter.bigrams, after the last document.
ScorePruning ==
    /\ pc = "counting"
    /\ DocDone
    /\ IF ScoreFails(bigrams, unigrams)
       THEN pc' = "crashed" /\ phrases' = phrases /\ bigrams' = bigrams
       ELSE /\ pc' = "scored"
            /\ phrases' = Accepted(bigrams, unigrams, threshold)
            /\ bigrams' = DelAll(bigrams, Entries(bigrams)
                                   \ Accepted(bigrams, unigrams, threshold))
    /\ UNCHANGED <<delta, n, bucket_ids, current_bucket_id, unigrams,
                   tokens, idx, threshold, f_true, observed>>

Score ==
    /\ pc = "counting"
    /\ DocDone
    /\ IF ScoreFails(bigrams, unigrams)
       THEN pc' = "crashed" /\ phrases' = phrases
       ELSE pc' = "scored" /\ phrases' = Accepted(bigrams, unigrams, threshold)
    /\ UNCHANGED <<delta, n, bigrams, bucket_ids, current_bucket_id, unigrams,
                   tokens, idx, threshold, f_true, observed>>

Next ==
    \/ \E d \in Deltas : Construct(d)
    \/ \E doc \in Docs : ReadDoc(doc)
    \/ AddPair
    \/ Score

Spec == Init /\ [][Next]_vars

\* The scoring loop as a function of finished tables: the tables of a counting
\* pass of fewer than 200 pairs under delta = 5e-3 (no bucket boundary yet),
\* every pair (t1, t2) read from a document [t1, t2] and the other tokens from
\* one-token documents.
NonStop == Tokens \ StopWords

TableOf(c) ==
    [t1 \in {t \in NonStop : \E t2 \in NonStop : c[<<t, t2>>] > 0} |->
        [t2 \in {t \in NonStop : c[<<t1, t>>] > 0} |-> c[<<t1, t2>>]]]

PairsOf(c, t) ==
    SumOver([u \in NonStop |-> c[<<t, u>>] + c[<<u, t>>]], NonStop)

InitPMI ==
    /\ pc = "counting"
    /\ delta = DeltaCode
    /\ current_bucket_id = 1
    /\ tokens = <<>>
    /\ idx = 1
    /\ phrases = {}
    /\ threshold \in Thresholds
    /\ unigrams \in [NonStop -> 1..MaxUni]
    /\ \E c \in [NonStop \X NonStop -> 0..MaxBi] :
          /\ \A t \in NonStop : PairsOf(c, t) <= unigrams[t]
          /\ bigrams = TableOf(c)
          /\ bucket_ids = [t1 \in DOMAIN TableOf(c) |->
                              [t2 \in DOMAIN TableOf(c)[t1] |-> 0]]
          /\ f_true = [p \in Pairs |-> IF p \in DOMAIN c THEN c[p] ELSE 0]
          /\ n = SumOver(c, DOMAIN c)
    /\ observed = [t \in Tokens |-> Count(unigrams, t)]

SpecPMI == InitPMI /\ [][Score]_vars

\* ------------------------------------------------------------- claims
\* A BigramCounter has been constructed.
Constructed == pc # "new"

\* delta lies in the open interval (0,1).
InOpenUnit(d) == 0 < d[1] /\ d[1] < d[2]

\* ceil(1 / delta) for a positive delta.
CeilWidth(d) == (d[2] + d[1] - 1) \div d[1]

CountAt(p) == bigrams[p[1]][p[2]]

\* C1: after N calls to add, every entry (t1, t2) present in the table has
\* f_true(t1, t2) <= count(t1, t2) + delta * N.
C1_ErrorBound ==
    (Constructed /\ InOpenUnit(delta)) =>
        \A p \in Entries(bigrams) :
            (f_true[p] - CountAt(p)) * delta[2] <= delta[1] * n

\* C2: after N pairs, every pair of non-stopword tokens whose true frequency
\* exceeds delta * N is present in the table.
C2_NoFalseNegatives ==
    (Constructed /\ InOpenUnit(delta)) =>
        \A p \in Pairs :
            (p[1] \notin StopWords /\ p[2] \notin StopWords
                /\ f_true[p] * delta[2] > delta[1] * n)
            => p \in Entries(bigrams)

\* C3: every entry present in the table has a count of at least 1 and at
\* most the number of add calls made with that pair.
C3_CountWithinTrueFrequency ==
    \A p \in Entries(bigrams) : 1 <= CountAt(p) /\ CountAt(p) <= f_true[p]

\* C3's case: after a weed-out, an entry that was deleted and observed again
\* stands beside calls the table no longer counts.
C3_Witness ==
    /\ current_bucket_id > 1
    /\ \E p \in Entries(bigrams) : 1 <= CountAt(p) /\ CountAt(p) < f_true[p]

\* C4: for delta in (0,1), after exactly k * ceil(1 / delta) calls to add,
\* current_bucket_id is its initial value 1 plus k.
C4_BucketPerCeilWidth ==
    (Constructed /\ InOpenUnit(delta)) =>
        \A k \in 0..MaxTokens :
            n = k * CeilWidth(delta) => current_bucket_id = 1 + k

\* C5: no entry of bigrams or of bucket_ids has a stopword as t1 or t2.
C5_NoStopwordEntry ==
    \A p \in Entries(bigrams) \cup Entries(bucket_ids) :
        p[1] \notin StopWords /\ p[2] \notin StopWords

\* C5's case: pairs with a stopword on either side were passed to add, one of
\* them more than once, while the table holds an entry.
C5_Witness ==
    /\ \E t \in NonStop : f_true[<<"the", t>>] >= 2
    /\ \E t \in NonStop : f_true[<<t, "the">>] >= 1
    /\ Entries(bigrams) # {}

\* C6: a delta outside (0,1) is rejected at construction: no counter results
\* from it, and no add call fails because of it.
C6_RejectedAtConstruction ==
    /\ Constructed => InOpenUnit(delta)
    /\ (pc = "crashed" /\ n >= 1) => InOpenUnit(delta)

\* C7: after the counting pass the unigram table maps every token to the
\* number of its occurrences over all documents, and the counts sum to the
\* number of tokens observed.
C7_UnigramExact ==
    Constructed =>
        /\ \A t \in Tokens : Count(unigrams, t) = observed[t]
        /\ DOMAIN unigrams = {t \in Tokens : observed[t] > 0}
        /\ SumValues(unigrams) = TotalObserved

\* C7's case: a finished pass over several documents, one token seen in more
\* than one of them and another never seen.
C7_Witness ==
    /\ pc = "scored"
    /\ observed["new"] >= 3
    /\ observed["the"] >= 1
    /\ observed["york"] = 0
    /\ n <= 1

\* C8: when scoring begins, every surviving entry (y, x) has unigram count(x)
\* >= 1, a unigram total >= 1 and a sum of counts under y >= 1, so the PMI
\* computation divides by no zero.
C8_NoZeroDivisor ==
    /\ (pc = "counting" /\ DocDone) =>
          \A p \in Entries(bigrams) :
              /\ Count(unigrams, p[2]) >= 1
              /\ SumValues(unigrams) >= 1
              /\ SumValues(bigrams[p[1]]) >= 1
    /\ pc = "crashed" => DivisionFails(delta)

\* C8's case: scoring has run over a table with surviving entries, after a
\* weed-out.
C8_Witness ==
    /\ pc = "scored"
    /\ current_bucket_id > 1
    /\ Cardinality(Entries(bigrams)) >= 2

\* e ^ threshold as a quotient of integers; e ^ 1000 is beyond every quotient
\* of counts, as is 10 ^ 6.
ExpOf(thr) ==
    IF thr = 400000 THEN <<149182, 100000>>
    ELSE IF thr = 500000 THEN <<164872, 100000>>
    ELSE <<1000000, 1>>

\* C10: the scorer emits "y x" for a surviving entry (y, x) if and only if
\* ln((count_x_given_y / count_all_given_y) / (count(x) / N_uni)) >= threshold,
\* stated as (count_x_given_y * N_uni) / (count_all_given_y * count(x))
\* >= e ^ threshold; unigrams {x: 10, y: 5} and the single entry y -> x with
\* count 5 are accepted at threshold 0.4 and rejected at threshold 0.5.
C10_AcceptIffPmiAtLeastThreshold ==
    pc = "scored" =>
        /\ phrases \subseteq Entries(bigrams)
        /\ \A p \in Entries(bigrams) :
              p \in phrases <=>
                  CountAt(p) * SumValues(unigrams) * ExpOf(threshold)[2]
                  >= SumValues(bigrams[p[1]]) * unigrams[p[2]]
                        * ExpOf(threshold)[1]
        /\ (/\ unigrams = [t \in NonStop |-> IF t = "york" THEN 10 ELSE 5]
            /\ Entries(bigrams) = {<<"new", "york">>}
            /\ CountAt(<<"new", "york">>) = 5)
           => /\ threshold = 400000 => phrases = {<<"new", "york">>}
              /\ threshold = 500000 => phrases = {}

\* C10's case: the example tables, scored at threshold 0.4 and accepted.
C10_Witness ==
    /\ pc = "scored"
    /\ threshold = 400000
    /\ unigrams = [t \in NonStop |-> IF t = "york" THEN 10 ELSE 5]
    /\ Entries(bigrams) = {<<"new", "york">>}
    /\ CountAt(<<"new", "york">>) = 5
    /\ phrases = {<<"new", "york">>}

\* An add call: the only step that advances n.  AddedPair is its (t1, t2).
AddStep == n' = n + 1

AddedPair == <<tokens[idx], tokens[idx + 1]>>

AddedCounted ==
    AddedPair[1] \notin StopWords /\ AddedPair[2] \notin StopWords

\* The table of an add call between its counting and its boundary test.
MidEntries ==
    Entries(bigrams) \cup (IF AddedCounted THEN {AddedPair} ELSE {})

MidCount(p) ==
    IF p \in Entries(bigrams)
    THEN CountAt(p) + (IF AddedCounted /\ p = AddedPair THEN 1 ELSE 0)
    ELSE 1

MidCreated(p) ==
    IF p \in Entries(bucket_ids) THEN bucket_ids[p[1]][p[2]]
    ELSE current_bucket_id - 1

\* C11: an add call that makes n a multiple of the window width advances
\* current_bucket_id by one and then deletes exactly the entries with
\* count <= current_bucket_id - created_bucket (the advanced id); every other
\* entry keeps its count and created_bucket; an add call not at a boundary
\* deletes no entry.
C11_WeedOutAtBoundary ==
    [][(AddStep /\ pc' = "counting") =>
         IF n' % Abs(Width(delta)) = 0
         THEN /\ current_bucket_id' = current_bucket_id + 1
              /\ Entries(bigrams') =
                    {p \in MidEntries :
                        ~(MidCount(p) <= current_bucket_id' - MidCreated(p))}
              /\ \A p \in Entries(bigrams') :
                    /\ bigrams'[p[1]][p[2]] = MidCount(p)
                    /\ bucket_ids'[p[1]][p[2]] = MidCreated(p)
         ELSE /\ current_bucket_id' = current_bucket_id
              /\ MidEntries \subseteq Entries(bigrams')]_vars

\* C11's case: the add call that just ran closed a bucket of width 3; the
\* weed-out kept an entry of count 3 created in that bucket.
C11_Witness ==
    /\ pc = "counting"
    /\ InOpenUnit(delta)
    /\ Width(delta) = 3
    /\ n = 3
    /\ idx > 1
    /\ current_bucket_id = 2
    /\ \E p \in Entries(bigrams) : CountAt(p) = 3 /\ bucket_ids[p[1]][p[2]] = 0

\* The add call ran no weed-out: it raised, or n is not at a boundary.
NoWeedOut == pc' = "crashed" \/ n' % Abs(Width(delta)) # 0

\* C12: add(t1, t2) with neither token a stopword creates a missing entry
\* with count 1 and created_bucket = current_bucket_id - 1, the bucket id
\* before any advance of that call, or increments an existing entry's count
\* by exactly one and keeps its created_bucket; no other entry's count or
\* created_bucket changes, and without a weed-out the entry is present.
C12_AddCountsPair ==
    [][(AddStep /\ AddedCounted) =>
         /\ AddedPair \in Entries(bigrams') =>
               IF AddedPair \in Entries(bigrams)
               THEN /\ bigrams'[AddedPair[1]][AddedPair[2]]
                          = CountAt(AddedPair) + 1
                    /\ bucket_ids'[AddedPair[1]][AddedPair[2]]
                          = bucket_ids[AddedPair[1]][AddedPair[2]]
               ELSE /\ bigrams'[AddedPair[1]][AddedPair[2]] = 1
                    /\ bucket_ids'[AddedPair[1]][AddedPair[2]]
                          = current_bucket_id - 1
         /\ \A q \in Entries(bigrams') \ {AddedPair} :
               /\ q \in Entries(bigrams)
               /\ bigrams'[q[1]][q[2]] = CountAt(q)
               /\ bucket_ids'[q[1]][q[2]] = bucket_ids[q[1]][q[2]]
         /\ NoWeedOut =>
               Entries(bigrams') = Entries(bigrams) \cup {AddedPair}]_vars

\* C12's case: an entry created in bucket 1 survived the boundary and was
\* then incremented: count 4, created_bucket still 0, bucket id 2.
C12_Witness ==
    /\ current_bucket_id = 2
    /\ n = 4
    /\ \E p \in Entries(bigrams) : CountAt(p) = 4 /\ bucket_ids[p[1]][p[2]] = 0

\* An add call, told by the history of calls.
AddCall == f_true' # f_true

\* C13: add(t1, t2) with t1 or t2 a stopword still increments n by exactly
\* one and still advances the bucket and weeds out when the new n is a
\* multiple of the window width; apart from that weed-out's deletions the
\* table's keys, counts and created_bucket values are unchanged.
C13_StopwordAddOnlyAdvances ==
    [][(AddCall /\ ~AddedCounted) =>
         /\ n' = n + 1
         /\ pc' = "counting" =>
               IF n' % Abs(Width(delta)) = 0
               THEN /\ current_bucket_id' = current_bucket_id + 1
                    /\ Entries(bigrams') =
                          {p \in Entries(bigrams) :
                              CountAt(p) > current_bucket_id'
                                              - bucket_ids[p[1]][p[2]]}
               ELSE /\ current_bucket_id' = current_bucket_id
                    /\ Entries(bigrams') = Entries(bigrams)
         /\ pc' = "crashed" => bigrams' = bigrams /\ bucket_ids' = bucket_ids
         /\ DOMAIN bigrams' = DOMAIN bigrams
         /\ DOMAIN bucket_ids' = DOMAIN bucket_ids
         /\ Entries(bucket_ids') = Entries(bigrams')
         /\ \A p \in Entries(bigrams') :
               /\ p \in Entries(bigrams)
               /\ bigrams'[p[1]][p[2]] = CountAt(p)
               /\ bucket_ids'[p[1]][p[2]] = bucket_ids[p[1]][p[2]]]_vars

\* C13's case: with window width 2 the second add call had a stopword, closed
\* the bucket and its weed-out deleted the entry the first call had created.
C13_Witness ==
    /\ pc = "counting"
    /\ InOpenUnit(delta)
    /\ Width(delta) = 2
    /\ n = 2
    /\ idx > 1
    /\ "the" \in {tokens[idx - 1], tokens[idx]}
    /\ current_bucket_id = 2
    /\ \E p \in Pairs : f_true[p] = 1 /\ p[1] \in DOMAIN bigrams
                          /\ p \notin Entries(bigrams)

\* C14: the scoring stage leaves the unigram table and the bigram table
\* (keys, counts, created_bucket values, n, current_bucket_id) unchanged, and
\* scoring the tables it leaves behind yields the set of phrases it accepted.
C14_ScoringLeavesTables ==
    [][(pc = "counting" /\ pc' = "scored") =>
         /\ UNCHANGED <<unigrams, bigrams, bucket_ids, n, current_bucket_id>>
         /\ phrases' = Accepted(bigrams', unigrams', threshold')]_vars

\* C14's case: scoring ran over a table of which it accepted one entry and
\* rejected another.
C14_Witness ==
    /\ pc = "scored"
    /\ phrases # {}
    /\ Entries(bigrams) \ phrases # {}
    /\ \A p \in Entries(bigrams) : CountAt(p) = f_true[p]

\* The last add call ran a weed-out and nothing was added since.
JustWeeded ==
    /\ pc \in {"counting", "scored"}
    /\ n >= 1
    /\ ~DivisionFails(delta)
    /\ n % Abs(Width(delta)) = 0

\* C15: immediately after every weed-out, every surviving entry has
\* count > current_bucket_id - created_bucket >= 2, so count >= 3 and the
\* pair was observed at least 3 times; with a window width of at most 2 the
\* table holds no entry right after a boundary.
C15_SurvivorsCountAtLeastThree ==
    JustWeeded =>
        /\ \A p \in Entries(bigrams) :
              /\ CountAt(p) > current_bucket_id - bucket_ids[p[1]][p[2]]
              /\ current_bucket_id - bucket_ids[p[1]][p[2]] >= 2
              /\ CountAt(p) >= 3
              /\ f_true[p] >= 3
        /\ Abs(Width(delta)) <= 2 => Entries(bigrams) = {}

\* C15's case: a pass scored right after the boundary of a bucket of width 3
\* that one pair filled.
C15_Witness ==
    /\ JustWeeded
    /\ pc = "scored"
    /\ Abs(Width(delta)) = 3
    /\ Entries(bigrams) # {}
    /\ \A p \in Entries(bigrams) : f_true[p] = 3

\* The tokens that ever were the t1 of an add call with no stopword.
ContextsSeen ==
    {t1 \in NonStop : \E t2 \in NonStop : f_true[<<t1, t2>>] > 0}

\* C16: the first-level keys of the bigram table never shrink, weed-out
\* keeping a key whose child map became empty: the keys are the distinct t1
\* that ever appeared in a non-stopword pair, and as many.
C16_ContextKeysNeverShrink ==
    /\ [](/\ DOMAIN bigrams = ContextsSeen
          /\ Cardinality(DOMAIN bigrams) = Cardinality(ContextsSeen))
    /\ [][DOMAIN bigrams \subseteq DOMAIN bigrams']_vars

\* C16's case: the scorer ran over a table with two context keys, one of them
\* with no children left (count_all_given_y = 0).
C16_Witness ==
    /\ pc = "scored"
    /\ Cardinality(DOMAIN bigrams) = 2
    /\ \E y \in DOMAIN bigrams : DOMAIN bigrams[y] = {}
    /\ Entries(bigrams) # {}

\* C17: between add calls the bigrams map and the bucket_ids map hold exactly
\* the same (t1, t2) pairs, so the weed-out finds a created_bucket for every
\* entry it inspects and a deletion removes the pair from both maps.
C17_SamePairsInBothMaps ==
    /\ Entries(bigrams) = Entries(bucket_ids)
    /\ DOMAIN bigrams = DOMAIN bucket_ids

\* C17's case: after a weed-out deleted one pair from both maps, another pair
\* is held by both.
C17_Witness ==
    /\ current_bucket_id > 1
    /\ \E p \in Pairs : f_true[p] > 0 /\ p[1] \in NonStop /\ p[2] \in NonStop
                          /\ p \notin Entries(bigrams)
                          /\ p \notin Entries(bucket_ids)
    /\ \E p \in Pairs : p \in Entries(bigrams) /\ p \in Entries(bucket_ids)

====
